---- MODULE Spec2Model ----
(***************************************************************************)
(* A model of regolith's todo helpers: u_todo (TodoUpdaterHelper, list /   *)
(* reindex / update a task) and f_todo (TodoFinisherHelper, mark a task    *)
(* finished).  The todo list of one person is stored in each configured    *)
(* database; one invocation of a helper is one action.                     *)
(***************************************************************************)
EXTENDS Integers, Sequences, FiniteSets, TLC

\* ---------------------------------------------------------------- bounds
NumDbs == 2        \* len(rc.databases)
MaxTasks == 2      \* longest stored todo list in the initial state
MaxOps == 2        \* helper invocations in one behaviour
MaxArgs == 2       \* optional command-line arguments supplied over one behaviour

\* ------------------------------------------------------- program constants
TARGET_COLL == "people"
ALLOWED_IMPORTANCE == {0, 1, 2}
ALLOWED_STATUS == {"started", "finished", "cancelled"}
DefaultDuration == 10000

\* Python's None, for integer-valued and for string-valued slots.
NoneInt == -1000
NoneStr == "None"

\* dt.date.today(), as a day number; every date is a day number.
Today == 3
\* fixed-point scale of the score "order" (a float in the source)
OrderScale == 1000000

Dbs == 1 .. NumDbs

\* ------------------------------------------------------------ truthiness
\* `if x:` on an int-or-None, a str-or-None and a list-or-None.
Truthy(v) == v # NoneInt /\ v # 0
TruthyStr(s) == s # NoneStr /\ s # ""
TruthySeq(s) == Len(s) > 0

Abs(n) == IF n < 0 THEN -n ELSE n

\* ----------------------------------------------------- the document store
\* One document per database: the person's record, with its todos.
NoDoc == [exists |-> FALSE, todos |-> <<>>]
Doc(todos) == [exists |-> TRUE, todos |-> todos]

\* rc.client.find_one(db_name, rc.coll, filterid): the stored document (a copy).
find_one(d, i) == d[i]

\* rc.client.update_one(db_name, rc.coll, filter, {"todos": todos}, upsert=True)
update_one(d, i, todos) == [d EXCEPT ![i] = Doc(todos)]

\* document_by_value(all_docs_from_collection(rc.client, "people"), "_id", ...):
\* the person as seen in the primary database, rc.databases[0].
document_by_value(d) == d[1]

\* ------------------------------------------------------------------ state
VARIABLES
    dbs,      \* dbs[i]: the person's document in rc.databases[i-1]
    pc,       \* "idle": no helper is running; "done": a helper has just ended
    rc,       \* the run control (command-line arguments) of the last invocation
    helper,   \* btype of the last invocation: "u_todo" or "f_todo" ("none" at start)
    outcome,  \* how db_updater ended: "ok", or the exception raised
    pre,      \* dbs when the last invocation began
    mem,      \* the in-memory todolist when the last invocation ended
    fresh,    \* the lists todolist_idx as numbered by the fresh pass (lines 106-122)
    shown,    \* the tasks printed by print_task, in order
    calls,    \* the document-store calls of the last invocation, in order
    nops,     \* invocations so far
    nargs,    \* optional arguments supplied so far
    ops       \* ops[o]: where operator o's invocation stands when two run at once

vars == <<dbs, pc, rc, helper, outcome, pre, mem, fresh, shown, calls, nops, nargs,
          ops>>

\* no operator is at work: the helpers run one at a time
NoOps == <<>>

\* ------------------------------------------------------------------ tasks
Descriptions == <<"a", "b", "c", "d">>

NewTask(desc, status, imp, due, ri) ==
    [description |-> desc, status |-> status, importance |-> imp,
     due_date |-> due, begin_date |-> Today - 2,
     end_date |-> IF status = "started" THEN NoneInt ELSE Today - 1,
     duration |-> NoneInt, notes |-> <<>>, running_index |-> ri]

IsDone(t) == t.status \in {"finished", "cancelled"}

\* ------------------------------------------------- fresh assignment pass
\* Lines 116-122: number one list, continuing from the counters passed in.
RECURSIVE FreshList(_, _, _, _)
FreshList(todos, p, index, index_finished) ==
    IF p > Len(todos)
    THEN [todos |-> todos, index |-> index, index_finished |-> index_finished]
    ELSE LET t == todos[p]
             st == t.status = "started"
             fi == t.status \in {"finished", "cancelled"}
             t1 == IF st THEN [t EXCEPT !.running_index = index] ELSE t
             t2 == IF fi THEN [t1 EXCEPT !.running_index = index_finished] ELSE t1
         IN FreshList([todos EXCEPT ![p] = t2], p + 1,
                      IF st THEN index + 1 ELSE index,
                      IF fi THEN index_finished - 1 ELSE index_finished)

\* A variant of FreshPass that starts the two counters again in every database.
RECURSIVE FreshPassPerDb(_, _, _, _, _, _)
FreshPassPerDb(d, i, index, index_finished, lists, log) ==
    IF i > NumDbs
    THEN [ok |-> TRUE, lists |-> lists, calls |-> log]
    ELSE LET person_idx == find_one(d, i)
             log1 == Append(log, <<"find_one", i>>)
         IN IF ~person_idx.exists
            THEN [ok |-> FALSE, lists |-> lists, calls |-> log1]
            ELSE LET r == FreshList(person_idx.todos, 1, 1, -1)
                 IN FreshPassPerDb(d, i + 1, index, index_finished,
                                   [lists EXCEPT ![i] = r.todos], log1)

\* Lines 106-122: the loop over rc.databases.  person_idx.get raises
\* AttributeError when find_one returns None.  Nothing is written back.
RECURSIVE FreshPass(_, _, _, _, _, _)
FreshPass(d, i, index, index_finished, lists, log) ==
    IF i > NumDbs
    THEN [ok |-> TRUE, lists |-> lists, calls |-> log]
    ELSE LET person_idx == find_one(d, i)
             log1 == Append(log, <<"find_one", i>>)
         IN IF ~person_idx.exists
            THEN [ok |-> FALSE, lists |-> lists, calls |-> log1]
            ELSE LET r == FreshList(person_idx.todos, 1, index, index_finished)
                 IN FreshPass(d, i + 1, r.index, r.index_finished,
                              [lists EXCEPT ![i] = r.todos], log1)

NoLists == [i \in Dbs |-> <<>>]
NoFresh == [ran |-> FALSE, ok |-> TRUE, lists |-> NoLists]

\* ------------------------------------------------------ scoring and sorting
\* floor(OrderScale / (1 + e^n)): the term 1 / (1 + math.exp(abs(days_to_due))).
Expit(n) ==
    CASE n = 0 -> 500000 [] n = 1 -> 268941 [] n = 2 -> 119202 [] n = 3 -> 47425
      [] n = 4 -> 17986  [] n = 5 -> 6692   [] n = 6 -> 2472   [] n = 7 -> 911
      [] n = 8 -> 335    [] n = 9 -> 123    [] n = 10 -> 45    [] n = 11 -> 16
      [] n = 12 -> 6     [] n = 13 -> 2     [] OTHER -> 0

\* math.exp(n) raises OverflowError for n above 709.
MaxExpArg == 709
\* In double precision 1 + 1/(1 + e^n) = 1 and 2 + 1/(1 + e^n) = 2 from n = 37 on.
AbsorbedFrom == 37

\* The term as the float sum keeps it: Expit where that is positive; below that
\* scale 1, unless the double addition to a nonzero importance absorbs it (0).
OrderTerm(imp, n) ==
    IF Expit(n) > 0 THEN Expit(n)
    ELSE IF imp # 0 /\ n >= AbsorbedFrom THEN 0 ELSE 1

\* math.exp(abs(days_to_due)) of line 141 raises OverflowError
Overflows(t, today) == Abs(t.due_date - today) > MaxExpArg

\* A variant of Scored that omits abs().
ScoredNoAbs(t, today) ==
    LET imp == IF ~Truthy(t.importance) THEN 1 ELSE t.importance
        days == t.due_date - today
    IN ("days_to_due" :> days) @@ ("order" :> imp * OrderScale + OrderTerm(imp, days))
         @@ [t EXCEPT !.importance = imp]

\* Lines 136-141 (u_todo) and 85-90 (f_todo): the fields set on one in-memory todo.
Scored(t, today) ==
    LET imp == IF ~Truthy(t.importance) THEN 1 ELSE t.importance
        days == t.due_date - today
    IN ("days_to_due" :> days) @@ ("order" :> imp * OrderScale + OrderTerm(imp, Abs(days)))
         @@ [t EXCEPT !.importance = imp]

ScoredList(todolist, today) == [p \in 1 .. Len(todolist) |-> Scored(todolist[p], today)]

\* the loop of lines 135-141 raises on some todo
ScoreRaises(todolist, today) ==
    \E p \in 1 .. Len(todolist) : Overflows(todolist[p], today)

\* k.get('duration', 10000)
DurationKey(t) == IF t.duration = NoneInt THEN DefaultDuration ELSE t.duration

\* Python's order on the status strings: "cancelled" < "finished" < "started".
StatusRank(s) == CASE s = "cancelled" -> 1 [] s = "finished" -> 2 [] s = "started" -> 3
                   [] OTHER -> 0

\* A variant of KeyLess without the status key.
KeyLessNoStatus(a, b, btype) ==
    \/ a.order > b.order
    \/ a.order = b.order /\ DurationKey(a) < DurationKey(b)

\* The sort keys: (-order, duration, status) in u_todo line 142 and
\* (-order, duration) in f_todo line 91, compared as tuples.
KeyLess(a, b, btype) ==
    \/ a.order > b.order
    \/ /\ a.order = b.order
       /\ \/ DurationKey(a) < DurationKey(b)
          \/ /\ btype = "u_todo"
             /\ DurationKey(a) = DurationKey(b)
             /\ StatusRank(a.status) < StatusRank(b.status)

\* sorted() is stable: x, the later element, goes after every element not above it.
InsertSorted(s, x, btype) ==
    LET before == {j \in 1 .. Len(s) : KeyLess(x, s[j], btype)}
        k == IF before = {} THEN Len(s) + 1
             ELSE CHOOSE j \in before : \A j2 \in before : j <= j2
    IN SubSeq(s, 1, k - 1) \o <<x>> \o SubSeq(s, k, Len(s))

RECURSIVE sorted(_, _)
sorted(s, btype) ==
    IF Len(s) = 0 THEN <<>>
    ELSE InsertSorted(sorted(SubSeq(s, 1, Len(s) - 1), btype), s[Len(s)], btype)

\* print_task(todo, status=[...]) over the list: the todos whose status is listed.
print_task(todolist, stati) == SelectSeq(todolist, LAMBDA t : t.status \in stati)

\* ------------------------------------------------------- reindex with sort
\* A variant of IndexMatch whose first new index is one less than the one passed in.
RECURSIVE IndexMatchOffByOne(_, _, _, _)
IndexMatchOffByOne(todolist, p, new_index, index_match) ==
    IF p > Len(todolist) THEN index_match
    ELSE IF todolist[p].status = "started"
         THEN IndexMatchOffByOne(todolist, p + 1, new_index + 1,
                                 (todolist[p].running_index :> new_index - 1) @@ index_match)
         ELSE IndexMatchOffByOne(todolist, p + 1, new_index, index_match)

\* A variant of IndexMatch that maps every old index of a started todo to itself.
RECURSIVE IndexMatchKeep(_, _, _, _)
IndexMatchKeep(todolist, p, new_index, index_match) ==
    IF p > Len(todolist) THEN index_match
    ELSE IF todolist[p].status = "started"
         THEN IndexMatchKeep(todolist, p + 1, new_index + 1,
                             (todolist[p].running_index :> todolist[p].running_index)
                                @@ index_match)
         ELSE IndexMatchKeep(todolist, p + 1, new_index, index_match)

\* Lines 143-149: old running_index -> new index, over the sorted started todos.
RECURSIVE IndexMatch(_, _, _, _)
IndexMatch(todolist, p, new_index, index_match) ==
    IF p > Len(todolist) THEN index_match
    ELSE IF todolist[p].status = "started"
         THEN IndexMatch(todolist, p + 1, new_index + 1,
                         (todolist[p].running_index :> new_index) @@ index_match)
         ELSE IndexMatch(todolist, p + 1, new_index, index_match)

EmptyMatch == [k \in {} |-> 0]

\* Lines 155-158 on one stored list: KeyError when a started todo's index is unmapped.
Remappable(todos, index_match) ==
    \A p \in 1 .. Len(todos) :
        todos[p].status = "started" => todos[p].running_index \in DOMAIN index_match

RemapList(todos, index_match) ==
    [p \in 1 .. Len(todos) |->
        IF todos[p].status = "started"
        THEN [todos[p] EXCEPT !.running_index = index_match[todos[p].running_index]]
        ELSE todos[p]]

\* A variant of ReindexDbs that returns after its first write, as SyncEdit does.
RECURSIVE ReindexDbsFirstOnly(_, _, _, _)
ReindexDbsFirstOnly(d, i, index_match, log) ==
    IF i > NumDbs
    THEN [dbs |-> d, outcome |-> "ok", calls |-> log]
    ELSE LET person_idx == find_one(d, i)
             log1 == Append(log, <<"find_one", i>>)
         IN IF ~person_idx.exists
            THEN [dbs |-> d, outcome |-> "AttributeError", calls |-> log1]
            ELSE IF Len(person_idx.todos) = 0
            THEN ReindexDbsFirstOnly(d, i + 1, index_match, log1)
            ELSE IF ~Remappable(person_idx.todos, index_match)
            THEN [dbs |-> d, outcome |-> "KeyError", calls |-> log1]
            ELSE [dbs |-> update_one(d, i, RemapList(person_idx.todos, index_match)),
                  outcome |-> "ok",
                  calls |-> Append(log1, <<"update_one", i>>)]

\* A variant of ReindexDbs that goes through rc.databases from the last to the first.
RECURSIVE ReindexDbsBackwards(_, _, _, _)
ReindexDbsBackwards(d, i, index_match, log) ==
    IF i > NumDbs
    THEN [dbs |-> d, outcome |-> "ok", calls |-> log]
    ELSE LET j == NumDbs + 1 - i
             person_idx == find_one(d, j)
             log1 == Append(log, <<"find_one", j>>)
         IN IF ~person_idx.exists
            THEN [dbs |-> d, outcome |-> "AttributeError", calls |-> log1]
            ELSE IF Len(person_idx.todos) = 0
            THEN ReindexDbsBackwards(d, i + 1, index_match, log1)
            ELSE IF ~Remappable(person_idx.todos, index_match)
            THEN [dbs |-> d, outcome |-> "KeyError", calls |-> log1]
            ELSE ReindexDbsBackwards(
                     update_one(d, j, RemapList(person_idx.todos, index_match)),
                     i + 1, index_match, Append(log1, <<"update_one", j>>))

\* Lines 150-161: the loop over rc.databases; an exception leaves the databases
\* already written as they are.
RECURSIVE ReindexDbs(_, _, _, _)
ReindexDbs(d, i, index_match, log) ==
    IF i > NumDbs
    THEN [dbs |-> d, outcome |-> "ok", calls |-> log]
    ELSE LET person_idx == find_one(d, i)
             log1 == Append(log, <<"find_one", i>>)
         IN IF ~person_idx.exists
            THEN [dbs |-> d, outcome |-> "AttributeError", calls |-> log1]
            ELSE IF Len(person_idx.todos) = 0
            THEN ReindexDbs(d, i + 1, index_match, log1)
            ELSE IF ~Remappable(person_idx.todos, index_match)
            THEN [dbs |-> d, outcome |-> "KeyError", calls |-> log1]
            ELSE ReindexDbs(update_one(d, i, RemapList(person_idx.todos, index_match)),
                            i + 1, index_match, Append(log1, <<"update_one", i>>))

\* ------------------------------------------------ command-line conversions
\* int(s): the strings that int() accepts, and their values; ValueError otherwise.
IsIntString(s) == s \in {"0", "1", "-1"}
int(s) == CASE s = "0" -> 0 [] s = "1" -> 1 [] s = "-1" -> -1

\* date_parser.parse(s).date(), as a day number (2024-01-03 is Today).
date_parser_parse(s) ==
    CASE s = "2024-01-01" -> Today - 2 [] s = "2024-01-02" -> Today - 1
      [] s = "2024-01-03" -> Today     [] s = "2024-01-04" -> Today + 1
      [] s = "2024-01-05" -> Today + 2

\* today = dt.date.today() unless rc.certain_date is given.
RefDate(args) ==
    IF ~TruthyStr(args.certain_date) THEN Today ELSE date_parser_parse(args.certain_date)

\* --------------------------------------------------------- update one task
\* match_todo = [i for i in todolist if i.get("running_index") == rc.index]
MatchPositions(todolist, index) ==
    {p \in 1 .. Len(todolist) : todolist[p].running_index = index}

FirstMatch(todolist, index) ==
    CHOOSE p \in MatchPositions(todolist, index) :
        \A q \in MatchPositions(todolist, index) : p <= q

\* A variant of ApplyEdits that stores the supplied status without validating it.
ApplyEditsAnyStatus(todo, args) ==
    LET t1 == IF TruthyStr(args.description)
              THEN [todo EXCEPT !.description = args.description] ELSE todo
        t2 == IF TruthyStr(args.due_date)
              THEN [t1 EXCEPT !.due_date =
                       IF IsIntString(args.due_date)
                       THEN t1.begin_date + int(args.due_date)
                       ELSE date_parser_parse(args.due_date)]
              ELSE t1
        t3 == IF Truthy(args.estimated_duration)
              THEN [t2 EXCEPT !.duration = args.estimated_duration] ELSE t2
        badImp == Truthy(args.importance) /\ args.importance \notin ALLOWED_IMPORTANCE
        t4 == IF Truthy(args.importance)
              THEN [t3 EXCEPT !.importance = args.importance] ELSE t3
        t5 == IF TruthyStr(args.status) THEN [t4 EXCEPT !.status = args.status] ELSE t4
        t6 == IF TruthySeq(args.notes) THEN [t5 EXCEPT !.notes = args.notes] ELSE t5
        t7 == IF TruthyStr(args.begin_date)
              THEN [t6 EXCEPT !.begin_date = date_parser_parse(args.begin_date)] ELSE t6
        t8 == IF TruthyStr(args.end_date)
              THEN [t7 EXCEPT !.end_date = date_parser_parse(args.end_date)] ELSE t7
    IN IF badImp THEN [todo |-> t3, outcome |-> "ValueError"]
       ELSE [todo |-> t8, outcome |-> "ok"]

\* A variant of ApplyEdits that counts an integer due_date from the reference date
\* (today, or the date given with -c) instead of the begin_date.
ApplyEditsDueFromToday(todo, args) ==
    LET t1 == IF TruthyStr(args.description)
              THEN [todo EXCEPT !.description = args.description] ELSE todo
        t2 == IF TruthyStr(args.due_date)
              THEN [t1 EXCEPT !.due_date =
                       IF IsIntString(args.due_date)
                       THEN RefDate(args) + int(args.due_date)
                       ELSE date_parser_parse(args.due_date)]
              ELSE t1
        t3 == IF Truthy(args.estimated_duration)
              THEN [t2 EXCEPT !.duration = args.estimated_duration] ELSE t2
        badImp == Truthy(args.importance) /\ args.importance \notin ALLOWED_IMPORTANCE
        t4 == IF Truthy(args.importance)
              THEN [t3 EXCEPT !.importance = args.importance] ELSE t3
        badStatus == TruthyStr(args.status) /\ args.status \notin ALLOWED_STATUS
        t5 == IF TruthyStr(args.status) THEN [t4 EXCEPT !.status = args.status] ELSE t4
        t6 == IF TruthySeq(args.notes) THEN [t5 EXCEPT !.notes = args.notes] ELSE t5
        t7 == IF TruthyStr(args.begin_date)
              THEN [t6 EXCEPT !.begin_date = date_parser_parse(args.begin_date)] ELSE t6
        t8 == IF TruthyStr(args.end_date)
              THEN [t7 EXCEPT !.end_date = date_parser_parse(args.end_date)] ELSE t7
    IN IF badImp THEN [todo |-> t3, outcome |-> "ValueError"]
       ELSE IF badStatus THEN [todo |-> t4, outcome |-> "ValueError"]
       ELSE [todo |-> t8, outcome |-> "ok"]

\* A variant of ApplyEdits that validates importance and status before any edit.
ApplyEditsValidateFirst(todo, args) ==
    LET t1 == IF TruthyStr(args.description)
              THEN [todo EXCEPT !.description = args.description] ELSE todo
        t2 == IF TruthyStr(args.due_date)
              THEN [t1 EXCEPT !.due_date =
                       IF IsIntString(args.due_date)
                       THEN t1.begin_date + int(args.due_date)
                       ELSE date_parser_parse(args.due_date)]
              ELSE t1
        t3 == IF Truthy(args.estimated_duration)
              THEN [t2 EXCEPT !.duration = args.estimated_duration] ELSE t2
        badImp == Truthy(args.importance) /\ args.importance \notin ALLOWED_IMPORTANCE
        t4 == IF Truthy(args.importance)
              THEN [t3 EXCEPT !.importance = args.importance] ELSE t3
        badStatus == TruthyStr(args.status) /\ args.status \notin ALLOWED_STATUS
        t5 == IF TruthyStr(args.status) THEN [t4 EXCEPT !.status = args.status] ELSE t4
        t6 == IF TruthySeq(args.notes) THEN [t5 EXCEPT !.notes = args.notes] ELSE t5
        t7 == IF TruthyStr(args.begin_date)
              THEN [t6 EXCEPT !.begin_date = date_parser_parse(args.begin_date)] ELSE t6
        t8 == IF TruthyStr(args.end_date)
              THEN [t7 EXCEPT !.end_date = date_parser_parse(args.end_date)] ELSE t7
    IN IF badImp THEN [todo |-> todo, outcome |-> "ValueError"]
       ELSE IF badStatus THEN [todo |-> todo, outcome |-> "ValueError"]
       ELSE [todo |-> t8, outcome |-> "ok"]

\* u_todo lines 181-207: the edits, in the order of the code; a ValueError leaves
\* the in-memory todo with the edits made before it.
ApplyEdits(todo, args) ==
    LET t1 == IF TruthyStr(args.description)
              THEN [todo EXCEPT !.description = args.description] ELSE todo
        t2 == IF TruthyStr(args.due_date)
              THEN [t1 EXCEPT !.due_date =
                       IF IsIntString(args.due_date)
                       THEN t1.begin_date + int(args.due_date)
                       ELSE date_parser_parse(args.due_date)]
              ELSE t1
        t3 == IF Truthy(args.estimated_duration)
              THEN [t2 EXCEPT !.duration = args.estimated_duration] ELSE t2
        badImp == Truthy(args.importance) /\ args.importance \notin ALLOWED_IMPORTANCE
        t4 == IF Truthy(args.importance)
              THEN [t3 EXCEPT !.importance = args.importance] ELSE t3
        badStatus == TruthyStr(args.status) /\ args.status \notin ALLOWED_STATUS
        t5 == IF TruthyStr(args.status) THEN [t4 EXCEPT !.status = args.status] ELSE t4
        t6 == IF TruthySeq(args.notes) THEN [t5 EXCEPT !.notes = args.notes] ELSE t5
        t7 == IF TruthyStr(args.begin_date)
              THEN [t6 EXCEPT !.begin_date = date_parser_parse(args.begin_date)] ELSE t6
        t8 == IF TruthyStr(args.end_date)
              THEN [t7 EXCEPT !.end_date = date_parser_parse(args.end_date)] ELSE t7
    IN IF badImp THEN [todo |-> t3, outcome |-> "ValueError"]
       ELSE IF badStatus THEN [todo |-> t4, outcome |-> "ValueError"]
       ELSE [todo |-> t8, outcome |-> "ok"]

\* A variant of FinishEdit that sets end_date only when -e supplies one.
FinishEditNoDefaultDate(todo, args) ==
    [todo EXCEPT !.status = "finished",
                 !.end_date = IF ~TruthyStr(args.end_date) THEN todo.end_date
                              ELSE date_parser_parse(args.end_date)]

\* A variant of FinishEdit that moves the finished task to the non-positive indices.
FinishEditRenumbered(todo, args) ==
    [todo EXCEPT !.status = "finished",
                 !.running_index = -Abs(todo.running_index),
                 !.end_date = IF ~TruthyStr(args.end_date) THEN Today
                              ELSE date_parser_parse(args.end_date)]

\* f_todo lines 105-110.
FinishEdit(todo, args) ==
    [todo EXCEPT !.status = "finished",
                 !.end_date = IF ~TruthyStr(args.end_date) THEN Today
                              ELSE date_parser_parse(args.end_date)]

\* A variant of SyncEdit that uses the database counter as the list position: the
\* loops of lines 209 and 214 share the name i.
RECURSIVE SyncEditAtDbIndex(_, _, _, _, _)
SyncEditAtDbIndex(d, i, index, todo, log) ==
    IF i > NumDbs
    THEN [dbs |-> d, outcome |-> "ok", calls |-> log]
    ELSE LET person_update == find_one(d, i)
             log1 == Append(log, <<"find_one", i>>)
             todolist_update == person_update.todos
         IN IF ~person_update.exists
            THEN [dbs |-> d, outcome |-> "AttributeError", calls |-> log1]
            ELSE IF MatchPositions(todolist_update, index) = {}
            THEN SyncEditAtDbIndex(d, i + 1, index, todo, log1)
            ELSE [dbs |-> update_one(d, i, [todolist_update EXCEPT ![i] = todo]),
                  outcome |-> "ok",
                  calls |-> Append(log1, <<"update_one", i>>)]

\* A variant of SyncEdit that goes on to the remaining databases after a write.
RECURSIVE SyncEditEvery(_, _, _, _, _)
SyncEditEvery(d, i, index, todo, log) ==
    IF i > NumDbs
    THEN [dbs |-> d, outcome |-> "ok", calls |-> log]
    ELSE LET person_update == find_one(d, i)
             log1 == Append(log, <<"find_one", i>>)
             todolist_update == person_update.todos
         IN IF ~person_update.exists
            THEN [dbs |-> d, outcome |-> "AttributeError", calls |-> log1]
            ELSE IF MatchPositions(todolist_update, index) = {}
            THEN SyncEditEvery(d, i + 1, index, todo, log1)
            ELSE SyncEditEvery(update_one(d, i,
                                  [todolist_update EXCEPT
                                      ![FirstMatch(todolist_update, index)] = todo]),
                               i + 1, index, todo, Append(log1, <<"update_one", i>>))

\* A variant of SyncEdit that passes over a database whose entry already is the
\* edited task, and writes the next one that holds the index.
RECURSIVE SyncEditResume(_, _, _, _, _)
SyncEditResume(d, i, index, todo, log) ==
    IF i > NumDbs
    THEN [dbs |-> d, outcome |-> "ok", calls |-> log]
    ELSE LET person_update == find_one(d, i)
             log1 == Append(log, <<"find_one", i>>)
             todolist_update == person_update.todos
         IN IF ~person_update.exists
            THEN [dbs |-> d, outcome |-> "AttributeError", calls |-> log1]
            ELSE IF MatchPositions(todolist_update, index) = {}
            THEN SyncEditResume(d, i + 1, index, todo, log1)
            ELSE IF todolist_update[FirstMatch(todolist_update, index)] = todo
            THEN SyncEditResume(d, i + 1, index, todo, log1)
            ELSE [dbs |-> update_one(d, i,
                              [todolist_update EXCEPT
                                  ![FirstMatch(todolist_update, index)] = todo]),
                  outcome |-> "ok",
                  calls |-> Append(log1, <<"update_one", i>>)]

\* u_todo lines 209-221 and f_todo lines 111-121: the loop over rc.databases.
\* The first stored entry with the index is replaced and written, and the helper
\* returns.
RECURSIVE SyncEdit(_, _, _, _, _)
SyncEdit(d, i, index, todo, log) ==
    IF i > NumDbs
    THEN [dbs |-> d, outcome |-> "ok", calls |-> log]
    ELSE LET person_update == find_one(d, i)
             log1 == Append(log, <<"find_one", i>>)
             todolist_update == person_update.todos
         IN IF ~person_update.exists
            THEN [dbs |-> d, outcome |-> "AttributeError", calls |-> log1]
            ELSE IF MatchPositions(todolist_update, index) = {}
            THEN SyncEdit(d, i + 1, index, todo, log1)
            ELSE [dbs |-> update_one(d, i,
                              [todolist_update EXCEPT
                                  ![FirstMatch(todolist_update, index)] = todo]),
                  outcome |-> "ok",
                  calls |-> Append(log1, <<"update_one", i>>)]

\* ------------------------------------------------------------ db_updater
Result(d, out, memlist, fr, printed, log) ==
    [dbs |-> d, outcome |-> out, mem |-> memlist, fresh |-> fr, shown |-> printed,
     calls |-> log]

\* TodoUpdaterHelper.db_updater, lines 95-222.
TodoUpdaterHelper_db_updater(d, args) ==
    LET fp == IF args.running_index
              THEN FreshPass(d, 1, 1, -1, NoLists, <<>>)
              ELSE [ok |-> TRUE, lists |-> NoLists, calls |-> <<>>]
        fr == [ran |-> args.running_index, ok |-> fp.ok, lists |-> fp.lists]
        person == document_by_value(d)
        todolist == person.todos
    IN IF ~fp.ok THEN Result(d, "AttributeError", <<>>, fr, <<>>, fp.calls)
       ELSE IF ~person.exists THEN Result(d, "TypeError", <<>>, fr, <<>>, fp.calls)
       ELSE IF Len(todolist) = 0 THEN Result(d, "ok", todolist, fr, <<>>, fp.calls)
       ELSE IF ~Truthy(args.index) /\ ScoreRaises(todolist, RefDate(args))
       THEN Result(d, "OverflowError", todolist, fr, <<>>, fp.calls)
       ELSE IF ~Truthy(args.index)
       THEN LET listed == sorted(ScoredList(todolist, RefDate(args)), "u_todo")
            IN IF args.running_index
               THEN LET index_match == IndexMatch(listed, 1, 1, EmptyMatch)
                        w == ReindexDbs(d, 1, index_match, fp.calls)
                    IN Result(w.dbs, w.outcome, listed, fr, <<>>, w.calls)
               ELSE Result(d, "ok", listed, fr,
                           print_task(listed, {"started"})
                             \o (IF args.all
                                 THEN print_task(listed, {"finished", "cancelled"})
                                 ELSE <<>>),
                           fp.calls)
       ELSE IF MatchPositions(todolist, args.index) = {}
       THEN Result(d, "RuntimeError", todolist, fr, <<>>, fp.calls)
       ELSE LET p == FirstMatch(todolist, args.index)
                e == ApplyEdits(todolist[p], args)
                edited == [todolist EXCEPT ![p] = e.todo]
            IN IF e.outcome # "ok"
               THEN Result(d, e.outcome, edited, fr, <<>>, fp.calls)
               ELSE LET w == SyncEdit(d, 1, args.index, e.todo, fp.calls)
                    IN Result(w.dbs, w.outcome, edited, fr, <<>>, w.calls)

\* A variant of the finisher's db_updater whose listing saves the scored and sorted
\* list in the primary database.
TodoFinisherHelper_db_updater_Saving(d, args) ==
    LET person == document_by_value(d)
        todolist == person.todos
    IN IF ~person.exists THEN Result(d, "TypeError", <<>>, NoFresh, <<>>, <<>>)
       ELSE IF Len(todolist) = 0 THEN Result(d, "ok", todolist, NoFresh, <<>>, <<>>)
       ELSE IF ~Truthy(args.index) /\ ScoreRaises(todolist, RefDate(args))
       THEN Result(d, "OverflowError", todolist, NoFresh, <<>>, <<>>)
       ELSE IF ~Truthy(args.index)
       THEN LET listed == sorted(ScoredList(todolist, RefDate(args)), "f_todo")
            IN Result(update_one(d, 1, listed), "ok", listed, NoFresh,
                      print_task(listed, {"started"}), <<<<"update_one", 1>>>>)
       ELSE IF MatchPositions(todolist, args.index) = {}
       THEN Result(d, "RuntimeError", todolist, NoFresh, <<>>, <<>>)
       ELSE LET p == FirstMatch(todolist, args.index)
                todo == FinishEdit(todolist[p], args)
                w == SyncEdit(d, 1, args.index, todo, <<>>)
            IN Result(w.dbs, w.outcome, [todolist EXCEPT ![p] = todo], NoFresh, <<>>,
                      w.calls)

\* TodoFinisherHelper.db_updater, lines 60-122.
TodoFinisherHelper_db_updater(d, args) ==
    LET person == document_by_value(d)
        todolist == person.todos
    IN IF ~person.exists THEN Result(d, "TypeError", <<>>, NoFresh, <<>>, <<>>)
       ELSE IF Len(todolist) = 0 THEN Result(d, "ok", todolist, NoFresh, <<>>, <<>>)
       ELSE IF ~Truthy(args.index) /\ ScoreRaises(todolist, RefDate(args))
       THEN Result(d, "OverflowError", todolist, NoFresh, <<>>, <<>>)
       ELSE IF ~Truthy(args.index)
       THEN LET listed == sorted(ScoredList(todolist, RefDate(args)), "f_todo")
            IN Result(d, "ok", listed, NoFresh, print_task(listed, {"started"}), <<>>)
       ELSE IF MatchPositions(todolist, args.index) = {}
       THEN Result(d, "RuntimeError", todolist, NoFresh, <<>>, <<>>)
       ELSE LET p == FirstMatch(todolist, args.index)
                todo == FinishEdit(todolist[p], args)
                w == SyncEdit(d, 1, args.index, todo, <<>>)
            IN Result(w.dbs, w.outcome, [todolist EXCEPT ![p] = todo], NoFresh, <<>>,
                      w.calls)

\* ------------------------------------------------------ command-line inputs
NoArgs ==
    [index |-> NoneInt, running_index |-> FALSE, all |-> FALSE,
     description |-> NoneStr, due_date |-> NoneStr, estimated_duration |-> NoneInt,
     importance |-> NoneInt, status |-> NoneStr, notes |-> <<>>,
     begin_date |-> NoneStr, end_date |-> NoneStr, certain_date |-> NoneStr]

\* -i: absent, zero, the indices a list of MaxTasks can hold, and one beyond.
IndexArgs == {NoneInt, 0} \cup (1 .. MaxTasks + 1) \cup {-1}

\* how many optional arguments (all but -i and -r) an invocation supplies
Supplied(args) ==
      (IF args.all THEN 1 ELSE 0)
    + (IF args.description # NoneStr THEN 1 ELSE 0)
    + (IF args.due_date # NoneStr THEN 1 ELSE 0)
    + (IF args.estimated_duration # NoneInt THEN 1 ELSE 0)
    + (IF args.importance # NoneInt THEN 1 ELSE 0)
    + (IF args.status # NoneStr THEN 1 ELSE 0)
    + (IF Len(args.notes) > 0 THEN 1 ELSE 0)
    + (IF args.begin_date # NoneStr THEN 1 ELSE 0)
    + (IF args.end_date # NoneStr THEN 1 ELSE 0)
    + (IF args.certain_date # NoneStr THEN 1 ELSE 0)

\* The optional arguments an invocation may supply, as <<name, value>>.
UTodoOptions ==
    {<<"all", TRUE>>, <<"description", "x">>,
     <<"due_date", "1">>, <<"due_date", "2024-01-05">>,
     <<"estimated_duration", 0>>, <<"estimated_duration", 30>>,
     <<"importance", 0>>, <<"importance", 2>>, <<"importance", 5>>,
     <<"status", "">>, <<"status", "started">>, <<"status", "finished">>,
     <<"status", "cancelled">>, <<"status", "bogus">>,
     <<"notes", <<"n">>>>, <<"begin_date", "2024-01-02">>,
     <<"end_date", "2024-01-04">>, <<"certain_date", "2024-01-04">>}

FTodoOptions == {<<"end_date", "2024-01-04">>, <<"certain_date", "2024-01-04">>}

\* the argument records that supply k of the options, each name at most once
RECURSIVE WithOptions(_, _)
WithOptions(options, k) ==
    IF k = 0 THEN {NoArgs}
    ELSE {[a EXCEPT ![o[1]] = o[2]] :
            <<a, o>> \in {<<a, o>> \in WithOptions(options, k - 1) \X options :
                             a[o[1]] = NoArgs[o[1]]}}

UTodoArgsBy ==
    [k \in 0 .. MaxArgs |->
        {[a EXCEPT !.index = i, !.running_index = r] :
            a \in WithOptions(UTodoOptions, k), i \in IndexArgs, r \in BOOLEAN}]

FTodoArgsBy ==
    [k \in 0 .. MaxArgs |->
        {[a EXCEPT !.index = i] : a \in WithOptions(FTodoOptions, k), i \in IndexArgs}]

\* ---------------------------------------------------------- initial state
\* A stored list: task p is Descriptions[p], due the day Today + p - 1; the first has
\* importance 1; the list is numbered as the fresh pass numbers it.
InitImportance(p) == IF p = 1 THEN {1} ELSE {1, 2}

RECURSIVE ListsOfLen(_)
ListsOfLen(n) ==
    IF n = 0 THEN {<<>>}
    ELSE {Append(l, NewTask(Descriptions[n], st, imp, Today + n - 1, 0)) :
            l \in ListsOfLen(n - 1), st \in ALLOWED_STATUS, imp \in InitImportance(n)}

Numbered(l) == FreshList(l, 1, 1, -1).todos

InitLists == UNION {{Numbered(l) : l \in ListsOfLen(n)} : n \in 0 .. MaxTasks}

\* What another database may hold beside the primary's list l: the same list, no
\* document, no todos, the list without its last task, the list with one more task.
OtherDocs(l) ==
    {Doc(l), NoDoc, Doc(<<>>),
     Doc(SubSeq(l, 1, Len(l) - 1)),
     Doc(Numbered(Append(l, NewTask(Descriptions[Len(l) + 1], "started", 1,
                                    Today + 1, 0))))}

InitDbs ==
    {d \in [Dbs -> {NoDoc} \cup UNION {OtherDocs(l) : l \in InitLists}] :
        /\ d[1] = NoDoc \/ d[1].todos \in InitLists
        /\ \A i \in Dbs : d[i] \in OtherDocs(d[1].todos)}

Init ==
    /\ dbs \in InitDbs
    /\ pc = "idle"
    /\ rc = NoArgs
    /\ helper = "none"
    /\ outcome = "ok"
    /\ pre = dbs
    /\ mem = <<>>
    /\ fresh = NoFresh
    /\ shown = <<>>
    /\ calls = <<>>
    /\ nops = 0
    /\ nargs = 0
    /\ ops = NoOps

\* ---------------------------------------------------------------- actions
Run(btype, args, r) ==
    /\ dbs' = r.dbs
    /\ pc' = "done"
    /\ rc' = args
    /\ helper' = btype
    /\ outcome' = r.outcome
    /\ pre' = dbs
    /\ mem' = r.mem
    /\ fresh' = r.fresh
    /\ shown' = r.shown
    /\ calls' = r.calls
    /\ nops' = nops + 1
    /\ nargs' = nargs + Supplied(args)
    /\ ops' = ops

\* regolith helper u_todo ...
UTodo ==
    /\ pc = "idle"
    /\ nops < MaxOps
    /\ \E k \in 0 .. MaxArgs - nargs : \E args \in UTodoArgsBy[k] :
          \E r \in {TodoUpdaterHelper_db_updater(dbs, args)} : Run("u_todo", args, r)

\* regolith helper f_todo ...
FTodo ==
    /\ pc = "idle"
    /\ nops < MaxOps
    /\ \E k \in 0 .. MaxArgs - nargs : \E args \in FTodoArgsBy[k] :
          \E r \in {TodoFinisherHelper_db_updater(dbs, args)} : Run("f_todo", args, r)

\* The helper's process ends: only the databases outlive it.
Exit ==
    /\ pc = "done"
    /\ pc' = "idle"
    /\ rc' = NoArgs
    /\ helper' = "none"
    /\ outcome' = "ok"
    /\ pre' = dbs
    /\ mem' = <<>>
    /\ fresh' = NoFresh
    /\ shown' = <<>>
    /\ calls' = <<>>
    /\ UNCHANGED <<dbs, nops, nargs, ops>>

Next == UTodo \/ FTodo \/ Exit

Spec == Init /\ [][Next]_vars

\* ================================================================ claims
\* Helpers for stating the claims about the invocation that has just ended.
Ended == pc = "done"

\* the document holds a task with this running_index
HasIndex(doc, index) == doc.exists /\ MatchPositions(doc.todos, index) # {}

\* an update (u_todo -i) or a mark-finished (f_todo -i) whose index resolves in
\* the in-memory list, the one loaded from the primary database
EditRun ==
    /\ Ended
    /\ helper \in {"u_todo", "f_todo"}
    /\ rc.index # NoneInt
    /\ HasIndex(document_by_value(pre), rc.index)

\* the edited in-memory task of such a run
EditedTask == mem[FirstMatch(document_by_value(pre).todos, rc.index)]

\* the databases whose stored list held the index when the run began
Holders == {i \in Dbs : HasIndex(pre[i], rc.index)}

HoldsEdit(i) ==
    /\ dbs[i].exists
    /\ Len(dbs[i].todos) = Len(pre[i].todos)
    /\ dbs[i].todos[FirstMatch(pre[i].todos, rc.index)] = EditedTask

\* C1 as stated: when an update or mark-finished whose index resolves ends (without
\* an exception), every database whose stored list holds the index holds the edited
\* task at that entry, and every database whose list lacks it is unchanged.
C1_EveryHolderEdited ==
    (EditRun /\ outcome = "ok") =>
        \A i \in Dbs : IF i \in Holders THEN HoldsEdit(i) ELSE dbs[i] = pre[i]

\* C1, amended: when such a run ends without an exception, the first database in
\* configuration order whose stored list holds the index holds the edited task at
\* its first entry with that index, and every other database is unchanged.
C1_FirstHolderEdited ==
    (EditRun /\ outcome = "ok") =>
        \E i \in Holders :
            /\ \A j \in Holders : i <= j
            /\ HoldsEdit(i)
            /\ \A j \in Dbs \ {i} : dbs[j] = pre[j]

\* C1 witness: two databases held the index, the edit changed the first one's
\* entry and the second one still holds the old task.
C1_Witness ==
    /\ EditRun /\ outcome = "ok"
    /\ Cardinality(Holders) >= 2
    /\ dbs[1] # pre[1]
    /\ \A j \in Dbs \ {1} : dbs[j] = pre[j]
    /\ \E j \in Holders \ {1} : ~HoldsEdit(j)

\* ---- C2
\* how many of the first p tasks of a list are started, and how many are terminal
StartedUpTo(todos, p) == Cardinality({q \in 1 .. p : todos[q].status = "started"})
DoneUpTo(todos, p) == Cardinality({q \in 1 .. p : IsDone(todos[q])})

RECURSIVE StartedBefore(_, _)
StartedBefore(d, i) ==
    IF i = 1 THEN 0
    ELSE StartedBefore(d, i - 1) + StartedUpTo(d[i - 1].todos, Len(d[i - 1].todos))

RECURSIVE DoneBefore(_, _)
DoneBefore(d, i) ==
    IF i = 1 THEN 0
    ELSE DoneBefore(d, i - 1) + DoneUpTo(d[i - 1].todos, Len(d[i - 1].todos))

\* a reindex request (-r) whose fresh pass ran through every database
FreshRun == Ended /\ helper = "u_todo" /\ rc.running_index /\ fresh.ran /\ fresh.ok

\* the fresh pass numbered list i as if the counters stood at s0 and f0 before it
NumberedFrom(i, s0, f0) ==
    /\ Len(fresh.lists[i]) = Len(pre[i].todos)
    /\ \A p \in 1 .. Len(pre[i].todos) :
          LET t == pre[i].todos[p]
          IN fresh.lists[i][p] =
                [t EXCEPT !.running_index =
                     IF t.status = "started" THEN s0 + StartedUpTo(pre[i].todos, p)
                     ELSE IF IsDone(t) THEN -(f0 + DoneUpTo(pre[i].todos, p))
                     ELSE t.running_index]

\* C2 as stated: the fresh pass of a reindex request numbers every database's list
\* on its own: its started tasks 1..N and its finished/cancelled tasks -1..-M, in
\* stored order.
C2_EachListFromOne == FreshRun => \A i \in Dbs : NumberedFrom(i, 0, 0)

\* C2, amended: the fresh pass numbers the lists of the databases as one sequence in
\* configuration order: the started tasks of database i continue after the started
\* tasks of the databases before it (1..N only in the first database with started
\* tasks), and likewise the finished/cancelled tasks downwards from -1.
C2_CountersRunOn ==
    FreshRun => \A i \in Dbs : NumberedFrom(i, StartedBefore(pre, i), DoneBefore(pre, i))

\* C2 witness: a fresh pass over two databases that both hold a started and a
\* terminal task; the second database's numbers do not start at 1 and -1.
C2_Witness ==
    /\ FreshRun
    /\ \A i \in {1, 2} :
          /\ StartedUpTo(pre[i].todos, Len(pre[i].todos)) >= 1
          /\ DoneUpTo(pre[i].todos, Len(pre[i].todos)) >= 1
    /\ \E p \in 1 .. Len(fresh.lists[2]) : fresh.lists[2][p].running_index > 1
    /\ \E p \in 1 .. Len(fresh.lists[2]) : fresh.lists[2][p].running_index < -1

\* ---- C3
\* a step in which a helper runs from start to end
HelperStep == pc = "idle" /\ pc' = "done"

\* the numbering spaces: started tasks positive, finished/cancelled tasks not
InItsSpace(t) ==
    /\ t.status = "started" => t.running_index > 0
    /\ IsDone(t) => t.running_index <= 0

\* C3 as stated: in every reachable state every started task has running_index > 0
\* and every finished or cancelled task has running_index <= 0.
C3_SpacesNeverOverlap ==
    \A i \in Dbs : \A p \in 1 .. Len(dbs[i].todos) : InItsSpace(dbs[i].todos[p])

\* C3, amended: no operation moves a stored task out of its numbering space unless
\* it changes that task's status: update and mark-finished leave the running_index
\* as it is (a task marked finished keeps its positive index, a task set back to
\* started keeps its non-positive one), and reindex gives started tasks positive
\* indices.
C3_LeavesSpaceOnlyByStatusChange ==
    [][HelperStep =>
          \A i \in Dbs :
              /\ Len(dbs'[i].todos) = Len(dbs[i].todos)
              /\ \A p \in 1 .. Len(dbs[i].todos) :
                    (/\ InItsSpace(dbs[i].todos[p])
                     /\ dbs'[i].todos[p].status = dbs[i].todos[p].status)
                        => InItsSpace(dbs'[i].todos[p])]_vars

\* C3 witness: a reindex has renumbered a list in which a task marked finished
\* earlier still carries a positive index, next to a started task.
C3_Witness ==
    /\ Ended /\ helper = "u_todo" /\ rc.running_index /\ ~Truthy(rc.index)
    /\ outcome = "ok"
    /\ dbs[1] # pre[1]
    /\ \E p, q \in 1 .. Len(dbs[1].todos) :
          /\ IsDone(dbs[1].todos[p]) /\ dbs[1].todos[p].running_index > 0
          /\ dbs[1].todos[q].status = "started" /\ dbs[1].todos[q].running_index > 0

\* ---- C4
\* C4 as stated: no two tasks of one database's todo list share a running_index.
C4_DistinctIndices ==
    \A i \in Dbs : \A p, q \in 1 .. Len(dbs[i].todos) :
        p # q => dbs[i].todos[p].running_index # dbs[i].todos[q].running_index

\* ---- C5
\* C5 as stated: a task whose status is finished or cancelled never has status
\* started afterwards.
C5_NeverBackToStarted ==
    [][\A i \in Dbs : \A p \in 1 .. Len(dbs[i].todos) :
          (IsDone(dbs[i].todos[p]) /\ p <= Len(dbs'[i].todos))
              => dbs'[i].todos[p].status # "started"]_vars

\* C5, amended: the status of a stored task changes only at the entry an operation
\* addresses, and only to "finished" under mark-finished or to the allowed status
\* an update supplies with -s; so a finished or cancelled task becomes started
\* again exactly when an update supplies status = started for it.
C5_StatusChangesOnlyAsSupplied ==
    [][HelperStep =>
          \A i \in Dbs : \A p \in 1 .. Len(dbs[i].todos) :
              (p <= Len(dbs'[i].todos)
                 /\ dbs'[i].todos[p].status # dbs[i].todos[p].status)
              => /\ rc'.index = dbs[i].todos[p].running_index
                 /\ \/ helper' = "f_todo" /\ dbs'[i].todos[p].status = "finished"
                    \/ /\ helper' = "u_todo"
                       /\ rc'.status \in ALLOWED_STATUS
                       /\ dbs'[i].todos[p].status = rc'.status]_vars

\* C5 witness: an update with -s started has just set a finished or cancelled
\* task back to started.
C5_Witness ==
    /\ EditRun /\ helper = "u_todo" /\ outcome = "ok" /\ rc.status = "started"
    /\ \E p \in 1 .. Len(pre[1].todos) :
          /\ IsDone(pre[1].todos[p])
          /\ dbs[1].todos[p].status = "started"

\* ---- C6
\* a mark-finished that resolved its index and ended without an exception
FinishRun == EditRun /\ helper = "f_todo" /\ outcome = "ok"

\* the position the run addressed in the primary database's list
AddressedPos == FirstMatch(document_by_value(pre).todos, rc.index)

\* what a default listing (no -i, no -r, no --all) of the current databases prints
DefaultListing(btype) ==
    IF btype = "u_todo" THEN TodoUpdaterHelper_db_updater(dbs, NoArgs).shown
    ELSE TodoFinisherHelper_db_updater(dbs, NoArgs).shown

\* the listing prints exactly the started tasks stored at the positions in ps
ShowsOnly(listing, ps) ==
    /\ Len(listing) = Cardinality({q \in ps : dbs[1].todos[q].status = "started"})
    /\ \A k \in 1 .. Len(listing) :
          \E q \in ps : /\ dbs[1].todos[q].status = "started"
                        /\ listing[k] = Scored(dbs[1].todos[q], Today)

\* C6: after a successful mark-finished of index i the addressed task is stored with
\* status finished and an end_date that is the supplied date, else today, and the
\* default listing of either helper shows the started tasks at the other positions
\* only.
C6_FinishedAndNotListed ==
    FinishRun =>
        LET t == dbs[1].todos[AddressedPos]
        IN /\ t.status = "finished"
           /\ t.end_date # NoneInt
           /\ t.end_date = (IF rc.end_date = NoneStr THEN Today
                            ELSE date_parser_parse(rc.end_date))
           /\ \A btype \in {"u_todo", "f_todo"} :
                 ShowsOnly(DefaultListing(btype),
                           (1 .. Len(dbs[1].todos)) \ {AddressedPos})

\* C6 witness: a started task with no end_date has been marked finished without -e,
\* and another started task is still listed.
C6_Witness ==
    /\ FinishRun
    /\ rc.end_date = NoneStr
    /\ pre[1].todos[AddressedPos].status = "started"
    /\ pre[1].todos[AddressedPos].end_date = NoneInt
    /\ Len(DefaultListing("f_todo")) >= 1

\* ---- C7
\* a run of a helper with -i on a person who has todos in the primary database
IndexRun(btypes) ==
    /\ Ended
    /\ helper \in btypes
    /\ rc.index # NoneInt
    /\ document_by_value(pre).exists
    /\ Len(document_by_value(pre).todos) > 0

\* C7 as stated, for a nonzero index: mark-finished fails, and writes and changes
\* nothing, whenever its index does not resolve to a task with status started, in
\* particular when it addresses a task that is already finished or cancelled.
C7_FinishFailsUnlessStarted ==
    (/\ IndexRun({"f_todo"})
     /\ rc.index # 0
     /\ ~\E p \in MatchPositions(pre[1].todos, rc.index) :
            pre[1].todos[p].status = "started")
        => outcome # "ok" /\ dbs = pre

\* ---- C8
\* C8 as stated: an update or mark-finished whose index (0 and negative values
\* included) matches no task of the loaded list ends in an error and changes no
\* database.
C8_UnmatchedIndexIsError ==
    (IndexRun({"u_todo", "f_todo"}) /\ MatchPositions(pre[1].todos, rc.index) = {})
        => outcome # "ok" /\ dbs = pre

\* ---- C9
\* C9 as stated, for a nonzero index: an update that supplies an importance outside
\* ALLOWED_IMPORTANCE or a status outside ALLOWED_STATUS ends in an error and changes
\* no database, whatever else it supplies.
C9_InvalidValueIsError ==
    (/\ IndexRun({"u_todo"})
     /\ rc.index # 0
     /\ \/ rc.importance # NoneInt /\ rc.importance \notin ALLOWED_IMPORTANCE
        \/ rc.status # NoneStr /\ rc.status \notin ALLOWED_STATUS)
        => outcome # "ok" /\ dbs = pre

\* ---- C10
\* C10: an update or mark-finished whose index resolves leaves, in every database,
\* the number of entries and every entry other than the first one with that
\* running_index as they were.
C10_OtherEntriesUnchanged ==
    EditRun =>
        \A i \in Dbs :
            /\ dbs[i].exists = pre[i].exists
            /\ Len(dbs[i].todos) = Len(pre[i].todos)
            /\ \A p \in 1 .. Len(pre[i].todos) :
                  (HasIndex(pre[i], rc.index) => p # FirstMatch(pre[i].todos, rc.index))
                      => dbs[i].todos[p] = pre[i].todos[p]

\* C10 witness: the second of two entries has been edited and written, and another
\* database holds todos too.
C10_Witness ==
    /\ EditRun /\ outcome = "ok"
    /\ Len(pre[1].todos) >= 2
    /\ AddressedPos = 2
    /\ dbs[1].todos[2] # pre[1].todos[2]
    /\ \E i \in Dbs \ {1} : Len(pre[i].todos) >= 1

\* ---- C11
\* C11 as stated: after an update that ends without an exception, the stored task
\* has every supplied importance v in {0, 1, 2} and every supplied nonnegative
\* estimated_duration d (v = 0 and d = 0 included).
C11_ValidFieldsApplied ==
    (EditRun /\ helper = "u_todo" /\ outcome = "ok") =>
        LET t == dbs[1].todos[AddressedPos]
        IN /\ rc.importance \in ALLOWED_IMPORTANCE => t.importance = rc.importance
           /\ (rc.estimated_duration # NoneInt /\ rc.estimated_duration >= 0)
                 => t.duration = rc.estimated_duration

\* ====================================================== the listing on its own
\* A second specification, for the score and the sort key: the stored lists hold two
\* tasks drawn from the sets below, and one listing (no -i, no -r) is run on them.
MaxDays == 710     \* |due_date - today| of the tasks scored under SpecScore

\* the values a stored task may have under "importance" (NoneInt: no such key)
StoredImportance == {NoneInt} \cup ALLOWED_IMPORTANCE

\* the arguments of a listing
UListArgs ==
    {[NoArgs EXCEPT !.all = a, !.certain_date = c] :
        a \in BOOLEAN, c \in {NoneStr, "2024-01-04"}}
FListArgs == {[NoArgs EXCEPT !.certain_date = c] : c \in {NoneStr, "2024-01-04"}}

\* regolith helper u_todo [--all] [-c DATE]
UList ==
    /\ pc = "idle"
    /\ \E args \in UListArgs :
          \E r \in {TodoUpdaterHelper_db_updater(dbs, args)} : Run("u_todo", args, r)

\* regolith helper f_todo [-c DATE]
FList ==
    /\ pc = "idle"
    /\ \E args \in FListArgs :
          \E r \in {TodoFinisherHelper_db_updater(dbs, args)} : Run("f_todo", args, r)

NextList == UList \/ FList

\* Two started tasks due n days after and n days before today.
ScoreLists ==
    {Numbered(<<NewTask("a", "started", ia, Today + n, 0),
                NewTask("b", "started", ib, Today - n, 0)>>) :
        n \in 0 .. MaxDays, ia \in StoredImportance, ib \in StoredImportance}

InitScore ==
    /\ dbs \in {[i \in Dbs |-> Doc(l)] : l \in ScoreLists}
    /\ pc = "idle"
    /\ rc = NoArgs
    /\ helper = "none"
    /\ outcome = "ok"
    /\ pre = dbs
    /\ mem = <<>>
    /\ fresh = NoFresh
    /\ shown = <<>>
    /\ calls = <<>>
    /\ nops = 0
    /\ nargs = 0
    /\ ops = NoOps

SpecScore == InitScore /\ [][NextList]_vars

\* ---- C12
\* a listing (no index, no -r) of a non-empty list has just ended
ListRun ==
    /\ Ended
    /\ ~Truthy(rc.index) /\ ~rc.running_index
    /\ Len(document_by_value(pre).todos) > 0

Half == OrderScale \div 2

\* C12 as stated: every listing scores every task, whatever its days_to_due; the
\* score is strictly between the importance the formula reads and that importance
\* + 0.5, and tasks of one importance with days_to_due d and -d have one score.
C12_SymmetricStrictlyBetween ==
    ListRun =>
        /\ outcome = "ok"
        /\ \A p \in 1 .. Len(mem) :
              /\ mem[p].order > mem[p].importance * OrderScale
              /\ mem[p].order < mem[p].importance * OrderScale + Half
        /\ \A p, q \in 1 .. Len(mem) :
              (/\ mem[p].importance = mem[q].importance
               /\ mem[p].days_to_due = -mem[q].days_to_due)
                  => mem[p].order = mem[q].order

\* C12, amended: when every |days_to_due| is at most 709 the listing scores every
\* task, and the score is the same for d and -d and lies between importance and
\* importance + 0.5, both ends included: it is importance + 0.5 exactly at
\* days_to_due = 0 and, in double precision, importance itself from |d| = 37 on
\* (the formula reads importance 1 or 2: a stored 0 is read as 1).  When some
\* |days_to_due| is 710 or more, math.exp raises OverflowError and nothing is scored.
C12_SymmetricWithinClosedBounds ==
    ListRun =>
        LET todolist == document_by_value(pre).todos
            far == \E p \in 1 .. Len(todolist) :
                      Abs(todolist[p].due_date - RefDate(rc)) > MaxExpArg
        IN IF far THEN outcome = "OverflowError" /\ shown = <<>>
           ELSE /\ outcome = "ok"
                /\ Len(mem) = Len(todolist)
                /\ \A p \in 1 .. Len(mem) :
                      /\ mem[p].order >= mem[p].importance * OrderScale
                      /\ mem[p].order <= mem[p].importance * OrderScale + Half
                      /\ mem[p].order = mem[p].importance * OrderScale + Half
                            <=> mem[p].days_to_due = 0
                      /\ mem[p].order = mem[p].importance * OrderScale
                            <=> Abs(mem[p].days_to_due) >= AbsorbedFrom
                /\ \A p, q \in 1 .. Len(mem) :
                      (/\ mem[p].importance = mem[q].importance
                       /\ mem[p].days_to_due = -mem[q].days_to_due)
                          => mem[p].order = mem[q].order

\* C12 witness: a listing has scored two tasks of one importance, due as many days
\* after the reference date as before it, with one score above the importance.
C12_Witness ==
    /\ ListRun /\ outcome = "ok" /\ Len(mem) = 2
    /\ mem[1].importance = mem[2].importance
    /\ mem[1].days_to_due # 0
    /\ mem[1].days_to_due = -mem[2].days_to_due
    /\ mem[1].order = mem[2].order
    /\ mem[1].order > mem[1].importance * OrderScale

\* ---- the sort, on lists of two tasks
SortDays == 1      \* |due_date - today| of the tasks sorted under SpecSort

\* Two tasks of any status, stored importance, due date within SortDays of today
\* and duration (none, or 30 minutes).
SortTasks(desc) ==
    {[NewTask(desc, st, imp, Today + n, 0) EXCEPT !.duration = du] :
        st \in ALLOWED_STATUS, imp \in StoredImportance,
        n \in -SortDays .. SortDays, du \in {NoneInt, 30}}

SortLists == {Numbered(<<a, b>>) : a \in SortTasks("a"), b \in SortTasks("b")}

InitSort ==
    /\ dbs \in {[i \in Dbs |-> Doc(l)] : l \in SortLists}
    /\ pc = "idle"
    /\ rc = NoArgs
    /\ helper = "none"
    /\ outcome = "ok"
    /\ pre = dbs
    /\ mem = <<>>
    /\ fresh = NoFresh
    /\ shown = <<>>
    /\ calls = <<>>
    /\ nops = 0
    /\ nargs = 0
    /\ ops = NoOps

SpecSort == InitSort /\ [][NextList]_vars

\* ---- C13
\* the importance stored, when the run began, for the task at position p of mem
StoredImportanceOf(p) ==
    LET todolist == document_by_value(pre).todos
        q == CHOOSE q \in 1 .. Len(todolist) :
                 todolist[q].description = mem[p].description
    IN todolist[q].importance

\* C13 as stated: in the sorted list of a listing, a task whose stored importance a
\* in {0, 1, 2} is greater than the stored importance b in {0, 1, 2} of another task
\* stands before that task, whatever their due dates and durations.
C13_ImportanceDominates ==
    (ListRun /\ outcome = "ok") =>
        \A p, q \in 1 .. Len(mem) :
            (/\ StoredImportanceOf(p) \in ALLOWED_IMPORTANCE
             /\ StoredImportanceOf(q) \in ALLOWED_IMPORTANCE
             /\ StoredImportanceOf(p) > StoredImportanceOf(q))
                => p < q

\* ---- C14
\* C14 as stated: in the list sorted by u_todo, of two tasks with equal order and
\* equal duration the started one stands before the finished or cancelled one.
C14_StartedFirst ==
    (ListRun /\ helper = "u_todo" /\ outcome = "ok") =>
        \A p, q \in 1 .. Len(mem) :
            (/\ mem[p].order = mem[q].order
             /\ DurationKey(mem[p]) = DurationKey(mem[q])
             /\ mem[p].status = "started" /\ IsDone(mem[q]))
                => p < q

\* C14, amended: in the list sorted by u_todo, of two tasks with equal order and
\* equal duration the started one stands after the finished or cancelled one (and a
\* cancelled one before a finished one): the status strings are compared in
\* ascending order.  What is printed still begins with the started tasks, which
\* are printed in a first pass over the list, the finished and cancelled ones in
\* a second pass under --all.
C14_StatusAscending ==
    (ListRun /\ helper = "u_todo" /\ outcome = "ok") =>
        /\ \A p, q \in 1 .. Len(mem) :
              (/\ mem[p].order = mem[q].order
               /\ DurationKey(mem[p]) = DurationKey(mem[q])
               /\ StatusRank(mem[p].status) < StatusRank(mem[q].status))
                  => p < q
        /\ \A j, k \in 1 .. Len(shown) :
              (shown[j].status = "started" /\ IsDone(shown[k])) => j < k

\* C14 witness: u_todo --all has sorted a started task stored first behind a
\* finished one of equal order and duration, and has printed the started one first.
C14_Witness ==
    /\ ListRun /\ helper = "u_todo" /\ outcome = "ok" /\ rc.all
    /\ Len(mem) = 2 /\ Len(shown) = 2
    /\ pre[1].todos[1].status = "started"
    /\ mem[1].status = "finished" /\ mem[2].status = "started"
    /\ mem[1].order = mem[2].order
    /\ DurationKey(mem[1]) = DurationKey(mem[2])
    /\ shown[1].status = "started"

\* ================================================== running a helper again
\* A third specification: one invocation as under Spec, then the same helper is run
\* again with the same arguments, any number of times, nothing else in between.
Rerun ==
    /\ pc \in {"done", "rerun"}
    /\ \E r \in {IF helper = "u_todo" THEN TodoUpdaterHelper_db_updater(dbs, rc)
                 ELSE TodoFinisherHelper_db_updater(dbs, rc)} :
          /\ dbs' = r.dbs
          /\ pc' = "rerun"
          /\ outcome' = r.outcome
          /\ pre' = dbs
          /\ mem' = r.mem
          /\ fresh' = r.fresh
          /\ shown' = r.shown
          /\ calls' = r.calls
          /\ UNCHANGED <<rc, helper, nops, nargs, ops>>

NextRerun == UTodo \/ FTodo \/ Rerun

SpecRerun == Init /\ [][NextRerun]_vars

\* an update or a mark-finished whose index resolves has just been run again
ReRan ==
    /\ pc = "rerun"
    /\ rc.index # NoneInt
    /\ HasIndex(document_by_value(pre), rc.index)

\* ---- C15
\* C15 as stated: running an update or a mark-finished again with the same arguments
\* changes no database, whatever edit fields it supplies: the state after two runs
\* is the state after one.
C15_RerunChangesNothing == ReRan => dbs = pre

\* ---- C16
\* C16 as stated, in the form a finite run refutes: when running an update or a
\* mark-finished again no longer changes any database (so that no further run with
\* these arguments will), every database whose list holds the index holds the
\* edited task.
C16_RerunsReachEveryHolder ==
    (ReRan /\ outcome = "ok" /\ dbs = pre) => \A i \in Holders : HoldsEdit(i)

\* C16, amended: running an update or a mark-finished of index i again writes only
\* the first database in configuration order whose list holds i, as the first run
\* did; every other database is left as it was, so databases after the first holder
\* are never updated by running again.
C16_RerunWritesFirstHolderOnly ==
    (ReRan /\ outcome = "ok") =>
        \E i \in Holders :
            /\ \A j \in Holders : i <= j
            /\ HoldsEdit(i)
            /\ \A j \in Dbs \ {i} : dbs[j] = pre[j]
            /\ \A k \in 1 .. Len(calls) : calls[k][1] = "update_one" => calls[k][2] = i

\* C16 witness: two databases hold the index; after running again the first holds
\* the edited task, the second still does not, and running again changes nothing.
C16_Witness ==
    /\ ReRan /\ outcome = "ok"
    /\ Cardinality(Holders) >= 2
    /\ HoldsEdit(1)
    /\ \E j \in Holders \ {1} : ~HoldsEdit(j)
    /\ dbs = pre
    /\ \E k \in 1 .. Len(calls) : calls[k] = <<"update_one", 1>>

\* ---- C17
\* an invocation of either helper without -i and without -r has just ended
PlainListing == Ended /\ rc.index = NoneInt /\ ~rc.running_index

\* C17: an invocation of u_todo or f_todo that supplies no index and does not ask for
\* a reindex calls no update_one, and leaves every database's document, with every
\* field of every stored task, as it was; what it scores and sorts is its own copy.
C17_ListingWritesNothing ==
    PlainListing =>
        /\ dbs = pre
        /\ \A k \in 1 .. Len(calls) : calls[k][1] # "update_one"

\* C17 witness: a listing has printed a task whose stored importance is 0; its own
\* copy carries importance 1, days_to_due and order; the stored task is as before.
C17_Witness ==
    /\ PlainListing /\ outcome = "ok"
    /\ Len(shown) >= 1
    /\ \E p \in 1 .. Len(mem) : \E q \in 1 .. Len(dbs[1].todos) :
          /\ mem[p].description = dbs[1].todos[q].description
          /\ dbs[1].todos[q].importance = 0
          /\ mem[p].importance = 1
          /\ "order" \in DOMAIN mem[p]
          /\ "order" \notin DOMAIN dbs[1].todos[q]
    /\ dbs = pre

\* ---- C18
\* what the invocation that has just ended would have left without its -c DATE
WithoutCertainDate ==
    LET args == [rc EXCEPT !.certain_date = NoneStr]
    IN IF helper = "u_todo" THEN TodoUpdaterHelper_db_updater(pre, args)
       ELSE TodoFinisherHelper_db_updater(pre, args)

\* a task without its running_index
LessIndex(t) == [t EXCEPT !.running_index = 0]

\* C18 as stated: an invocation with a certain_date leaves every database as the
\* same invocation without it: listing, reindex, update and mark-finished alike,
\* running_index values included.
C18_DateNeverPersisted ==
    (Ended /\ rc.certain_date # NoneStr) => dbs = WithoutCertainDate.dbs

\* C18, amended: the certain_date is not stored, and a listing, an update and a
\* mark-finished leave every database as the same invocation without it; a
\* reindex-with-sort (-r without an index) sorts by the days counted from that date,
\* so the running_index values it stores for started tasks may differ from those
\* stored without it, while no other stored field and no finished or cancelled
\* task differs.
C18_DateReachesReindexOnly ==
    (Ended /\ rc.certain_date # NoneStr) =>
        LET alt == WithoutCertainDate.dbs
        IN IF helper = "u_todo" /\ rc.running_index /\ ~Truthy(rc.index)
           THEN \A i \in Dbs :
                   /\ dbs[i].exists = alt[i].exists
                   /\ Len(dbs[i].todos) = Len(alt[i].todos)
                   /\ \A p \in 1 .. Len(dbs[i].todos) :
                         /\ LessIndex(dbs[i].todos[p]) = LessIndex(alt[i].todos[p])
                         /\ dbs[i].todos[p].status # "started"
                               => dbs[i].todos[p] = alt[i].todos[p]
           ELSE dbs = alt

\* C18 witness: a reindex-with-sort with -c has stored running_index values other
\* than the ones the same reindex stores without -c.
C18_Witness ==
    /\ Ended /\ helper = "u_todo" /\ rc.running_index /\ ~Truthy(rc.index)
    /\ rc.certain_date # NoneStr
    /\ outcome = "ok"
    /\ dbs # pre
    /\ \E p \in 1 .. Len(dbs[1].todos) :
          dbs[1].todos[p].running_index
              # WithoutCertainDate.dbs[1].todos[p].running_index

\* ---- C19
\* the positions in calls of the writes of the invocation
Writes == {k \in 1 .. Len(calls) : calls[k][1] = "update_one"}

ReindexOfCopies ==
    /\ Ended /\ helper = "u_todo" /\ rc.running_index /\ ~Truthy(rc.index)
    /\ \A i \in Dbs : pre[i].exists /\ pre[i] = pre[1]

\* the run ended normally, wrote every database, and the databases agree on the
\* running_index of every task
AllWrittenAlike ==
    /\ outcome = "ok"
    /\ \A i \in Dbs : \E k \in 1 .. Len(calls) : calls[k] = <<"update_one", i>>
    /\ \A i \in Dbs : dbs[i] = dbs[1]

StartedPos(todos) == {p \in 1 .. Len(todos) : todos[p].status = "started"}
StartedIndices(todos) == {todos[p].running_index : p \in StartedPos(todos)}

\* a reindex-with-sort has just ended; the started tasks of the list it loaded had
\* pairwise distinct indices
ReindexOfDistinct ==
    /\ Ended /\ helper = "u_todo" /\ rc.running_index /\ ~Truthy(rc.index)
    /\ pre[1].exists /\ Len(pre[1].todos) > 0
    /\ \A i \in Dbs : pre[i].exists
    /\ \A p, q \in StartedPos(pre[1].todos) :
          p # q => pre[1].todos[p].running_index # pre[1].todos[q].running_index

\* the databases the run has written
Written == {calls[k][2] : k \in Writes}

\* the started tasks of database i carry exactly 1..N, in the order of the sorted
\* list mem (whose entries still carry the old indices)
NumberedInSortOrder(i) ==
    /\ StartedIndices(dbs[i].todos) = 1 .. Cardinality(StartedPos(dbs[i].todos))
    /\ \A a, b \in 1 .. Len(mem) : \A k, l \in StartedPos(pre[i].todos) :
          (/\ a < b
           /\ mem[a].status = "started" /\ mem[b].status = "started"
           /\ pre[i].todos[k].running_index = mem[a].running_index
           /\ pre[i].todos[l].running_index = mem[b].running_index)
              => dbs[i].todos[k].running_index < dbs[i].todos[l].running_index

\* C21 as stated: after a reindex-with-sort on a list whose started tasks have
\* distinct indices, the started tasks of every written database carry exactly
\* 1..N, increasing along the sort order, and old index -> new index is one-to-one.
C21_EveryWrittenReplicaOneToN ==
    ReindexOfDistinct => \A i \in Written : NumberedInSortOrder(i)

\* C21, amended: under that condition the database the list was loaded from (the
\* first one) is written with its started tasks carrying exactly 1..N, increasing
\* along the sort order, old index -> new index being a bijection; every other
\* written database gives each of its started tasks the new index of the loaded
\* task with the same old index, so its started tasks carry 1..M only when they
\* are the started tasks of the loaded list.
C21_LoadedListOneToN ==
    ReindexOfDistinct =>
        /\ 1 \in Written
        /\ NumberedInSortOrder(1)
        /\ Cardinality(StartedIndices(dbs[1].todos))
              = Cardinality(StartedIndices(pre[1].todos))
        /\ \A i \in Written : \A k \in StartedPos(pre[i].todos) :
              \E l \in StartedPos(pre[1].todos) :
                  /\ pre[1].todos[l].running_index = pre[i].todos[k].running_index
                  /\ dbs[i].todos[k].running_index = dbs[1].todos[l].running_index
        /\ \A i \in Written :
              StartedIndices(pre[i].todos) = StartedIndices(pre[1].todos)
                  => NumberedInSortOrder(i)

\* C21 witness: the loaded list's two started tasks have been renumbered 1 and 2 in
\* sort order, and the second database, which holds one of them, has been written
\* with that task at index 2.
C21_Witness ==
    /\ ReindexOfDistinct /\ outcome = "ok"
    /\ Written = {1, 2}
    /\ Cardinality(StartedPos(pre[1].todos)) = 2
    /\ dbs[1] # pre[1]
    /\ StartedIndices(dbs[2].todos) = {2}

\* ---- C22
\* an update whose index resolves has failed the validation of importance or status
FailedValidation == EditRun /\ helper = "u_todo" /\ outcome = "ValueError"

\* C22 as stated: when an update fails validation, the addressed in-memory task is
\* as it was loaded, whatever else the invocation supplies.
C22_NothingEditedBeforeError ==
    FailedValidation => mem[AddressedPos] = pre[1].todos[AddressedPos]

\* C22, amended: when an update fails validation nothing is written and every
\* database is as before, but the addressed in-memory task already carries the
\* supplied description, due_date and estimated_duration, and, when it is the
\* status that is invalid, the supplied importance; its status, notes, begin_date
\* and end_date are as loaded.
C22_EarlierEditsMadeNothingWritten ==
    FailedValidation =>
        LET t0 == pre[1].todos[AddressedPos]
            t == mem[AddressedPos]
        IN /\ dbs = pre /\ Writes = {}
           /\ t.description = (IF TruthyStr(rc.description) THEN rc.description
                               ELSE t0.description)
           /\ t.due_date = (IF ~TruthyStr(rc.due_date) THEN t0.due_date
                            ELSE IF IsIntString(rc.due_date)
                            THEN t0.begin_date + int(rc.due_date)
                            ELSE date_parser_parse(rc.due_date))
           /\ t.duration = (IF Truthy(rc.estimated_duration) THEN rc.estimated_duration
                            ELSE t0.duration)
           /\ t.importance = (IF Truthy(rc.importance)
                                 /\ rc.importance \in ALLOWED_IMPORTANCE
                              THEN rc.importance ELSE t0.importance)
           /\ t.status = t0.status /\ t.notes = t0.notes
           /\ t.begin_date = t0.begin_date /\ t.end_date = t0.end_date
           /\ t.running_index = t0.running_index

\* C22 witness: an update with a new description and an importance outside the
\* allowed set has raised ValueError with the in-memory description replaced and
\* the stored task as before.
C22_Witness ==
    /\ FailedValidation
    /\ rc.description = "x" /\ rc.importance = 5
    /\ mem[AddressedPos].description = "x"
    /\ pre[1].todos[AddressedPos].description # "x"
    /\ dbs[1].todos[AddressedPos] = pre[1].todos[AddressedPos]

\* ---- C23
\* an update or mark-finished whose index resolves, or a reindex-with-sort, has just
\* ended; the person has todos in the first database, and some database has no
\* document of the person, or one without todos
RunPastMissingReplica ==
    /\ Ended /\ pre[1].exists /\ Len(pre[1].todos) > 0
    /\ \/ EditRun
       \/ helper = "u_todo" /\ rc.running_index /\ ~Truthy(rc.index)
    /\ \E i \in Dbs : ~pre[i].exists \/ Len(pre[i].todos) = 0

\* C23 as stated: such a run does not fail on the database without the document (or
\* without todos); it passes over it, and a reindex still writes every database
\* that holds todos.
C23_MissingReplicaSkipped ==
    RunPastMissingReplica =>
        /\ outcome # "AttributeError"
        /\ (rc.running_index /\ ~Truthy(rc.index) /\ outcome = "ok")
              => \A i \in Dbs : (pre[i].exists /\ Len(pre[i].todos) > 0)
                                    => i \in Written

\* ================================================= two updates at the same time
\* A fourth specification: two operators each run regolith helper u_todo -i on the
\* same person; an invocation is split at its document-store calls, which are the
\* points where the other invocation's calls can come in between.
NumOperators == 2  \* u_todo invocations running at once under SpecRace

Operators == 1 .. NumOperators

\* the edits an operator may ask for, and the argument records
RaceOptions == {<<"description", "x">>, <<"importance", 2>>, <<"status", "finished">>}
RaceArgs ==
    {[NoArgs EXCEPT !.index = i, ![o[1]] = o[2]] : i \in 1 .. MaxTasks, o \in RaceOptions}

NotStarted == [pc |-> "start", args |-> NoArgs, todo |-> <<>>, i |-> 1, copy |-> <<>>,
               outcome |-> "ok"]

\* u_todo lines 123-207 with an index: load the person, find the task, edit it.
\* go: the invocation goes on to the loop over rc.databases.
LoadEdit(d, args) ==
    LET person == document_by_value(d)
        todolist == person.todos
    IN IF ~person.exists THEN [go |-> FALSE, outcome |-> "TypeError", todo |-> <<>>]
       ELSE IF Len(todolist) = 0 THEN [go |-> FALSE, outcome |-> "ok", todo |-> <<>>]
       ELSE IF MatchPositions(todolist, args.index) = {}
       THEN [go |-> FALSE, outcome |-> "RuntimeError", todo |-> <<>>]
       ELSE LET e == ApplyEdits(todolist[FirstMatch(todolist, args.index)], args)
            IN [go |-> e.outcome = "ok", outcome |-> e.outcome, todo |-> e.todo]

\* A variant of WriteBack that puts the edited task into the list as it is stored at
\* the time of the write, not into the copy read before.
WriteBackMerged(d, i, copy, index, todo) ==
    update_one(d, i, [find_one(d, i).todos EXCEPT ![FirstMatch(copy, index)] = todo])

\* u_todo lines 214-218: the edited task replaces the entry in the copy read by
\* find_one, and update_one stores that whole list.
WriteBack(d, i, copy, index, todo) ==
    update_one(d, i, [copy EXCEPT ![FirstMatch(copy, index)] = todo])

\* the variables that only the one-at-a-time specifications use
solo == <<pc, rc, helper, outcome, pre, mem, fresh, shown, nops, nargs>>

\* operator o starts u_todo -i: lines 123-207; the operators edit different tasks
Load(o) ==
    /\ ops[o].pc = "start"
    /\ \E args \in RaceArgs :
          /\ \A q \in Operators \ {o} :
                ops[q].pc # "start" => ops[q].args.index # args.index
          /\ \E r \in {LoadEdit(dbs, args)} :
                ops' = [ops EXCEPT ![o] =
                           [pc |-> IF r.go THEN "loop" ELSE "done", args |-> args,
                            todo |-> r.todo, i |-> 1, copy |-> <<>>,
                            outcome |-> r.outcome]]
    /\ calls' = Append(calls, <<"all_docs_from_collection", 1, o>>)
    /\ UNCHANGED <<dbs, solo>>

\* operator o's find_one of lines 211-215, on database ops[o].i
Find(o) ==
    /\ ops[o].pc = "loop"
    /\ LET i == ops[o].i
           person_update == find_one(dbs, i)
       IN /\ calls' = Append(calls, <<"find_one", i, o>>)
          /\ ops' = [ops EXCEPT ![o] =
                IF ~person_update.exists
                THEN [@ EXCEPT !.pc = "done", !.outcome = "AttributeError"]
                ELSE IF MatchPositions(person_update.todos, ops[o].args.index) = {}
                THEN IF i = NumDbs THEN [@ EXCEPT !.pc = "done"]
                     ELSE [@ EXCEPT !.i = i + 1]
                ELSE [@ EXCEPT !.pc = "write", !.copy = person_update.todos]]
    /\ UNCHANGED <<dbs, solo>>

\* operator o's update_one of line 217, and the return of line 221
Write(o) ==
    /\ ops[o].pc = "write"
    /\ dbs' = WriteBack(dbs, ops[o].i, ops[o].copy, ops[o].args.index, ops[o].todo)
    /\ calls' = Append(calls, <<"update_one", ops[o].i, o>>)
    /\ ops' = [ops EXCEPT ![o].pc = "done"]
    /\ UNCHANGED solo

RaceLoad == \E o \in Operators : Load(o)
RaceFind == \E o \in Operators : Find(o)
RaceWrite == \E o \in Operators : Write(o)

NextRace == RaceLoad \/ RaceFind \/ RaceWrite

InitRace ==
    /\ dbs \in InitDbs
    /\ pc = "race"
    /\ rc = NoArgs
    /\ helper = "u_todo"
    /\ outcome = "ok"
    /\ pre = dbs
    /\ mem = <<>>
    /\ fresh = NoFresh
    /\ shown = <<>>
    /\ calls = <<>>
    /\ nops = 0
    /\ nargs = 0
    /\ ops = [o \in Operators |-> NotStarted]

SpecRace == InitRace /\ [][NextRace]_vars

\* ---- C24
\* the store calls of operator o on database i: its read before writing, its write
ReadAt(o, i) == {k \in 1 .. Len(calls) : calls[k] = <<"find_one", i, o>>}
WriteAt(o, i) == {k \in 1 .. Len(calls) : calls[k] = <<"update_one", i, o>>}

\* the position operator o has edited, and whether database i holds its edit there
EditedPos(o) == FirstMatch(ops[o].copy, ops[o].args.index)
EditPresent(o, i) == dbs[i].todos[EditedPos(o)] = ops[o].todo

\* C24: every write stores the writer's own copy of the list, read before, with the
\* writer's entry replaced, so the last writer of a database wins: the edit of an
\* operator who wrote after the last writer had read is absent from the database,
\* and an edit is absent only when some operator read the list before that edit
\* was written and wrote it afterwards.  (Such a state is reachable: see the
\* witness.)
C24_LastWriterWins ==
    \A i \in Dbs :
        /\ \A q \in Operators : \A l \in WriteAt(q, i) :
              (\A w \in Writes : calls[w][2] = i => w <= l) =>
                  /\ dbs[i].todos = [ops[q].copy EXCEPT ![EditedPos(q)] = ops[q].todo]
                  /\ \A o \in Operators \ {q} : \A k \in WriteAt(o, i) :
                        (/\ ops[o].todo # pre[i].todos[EditedPos(o)]
                         /\ \A f \in ReadAt(q, i) : f < k)
                            => ~EditPresent(o, i)
        /\ \A o \in Operators : \A k \in WriteAt(o, i) :
              ~EditPresent(o, i) =>
                  \E r \in Operators \ {o} :
                      \E l \in WriteAt(r, i) : \E f \in ReadAt(r, i) : f < k /\ k < l

\* C24 witness: the lost update.  Both operators have edited different tasks and
\* written the first database; the second writer read the list before the first
\* wrote, and the first writer's edit is not in the stored list.
C24_Witness ==
    /\ \A o \in Operators : ops[o].pc = "done" /\ ops[o].outcome = "ok"
    /\ \E o, q \in Operators :
          /\ o # q
          /\ ops[o].args.index # ops[q].args.index
          /\ \E k \in WriteAt(o, 1) : \E l \in WriteAt(q, 1) : \E f \in ReadAt(q, 1) :
                f < k /\ k < l
          /\ ops[o].todo # pre[1].todos[EditedPos(o)]
          /\ dbs[1].todos[EditedPos(o)] = pre[1].todos[EditedPos(o)]
          /\ EditPresent(q, 1)

\* ---- C25
\* C25 as stated: after an update that supplies due_date and ends without an
\* exception, the stored task's due_date is its begin_date plus n days when the
\* argument is the integer string n, and the date given when it is a date.
C25_DueDateFromBeginDate ==
    (EditRun /\ helper = "u_todo" /\ outcome = "ok" /\ rc.due_date # NoneStr) =>
        LET t == dbs[1].todos[AddressedPos]
        IN IF IsIntString(rc.due_date)
           THEN t.due_date = t.begin_date + int(rc.due_date)
           ELSE t.due_date = date_parser_parse(rc.due_date)

\* ---- C26
\* the first database in configuration order whose list held the index
FirstHolder == CHOOSE i \in Holders : \A j \in Holders : i <= j

\* the calls of the fresh pass: one find_one of every database, in order
FreshReads == [i \in Dbs |-> <<"find_one", i>>]

\* C26 as stated: an update or mark-finished that ends without an exception writes
\* once, into the first database whose list holds the index, and neither reads nor
\* writes any database after that one.
C26_LaterReplicasUntouched ==
    (EditRun /\ outcome = "ok") =>
        /\ Cardinality(Writes) = 1
        /\ \A k \in 1 .. Len(calls) : calls[k][2] <= FirstHolder
        /\ \A k \in Writes : calls[k][2] = FirstHolder

\* C26, amended: such an invocation writes once, into the first database whose list
\* holds the index, and its loop over the databases reads none after that one; but
\* an update that also carries -r has before that read every configured database
\* once, in its fresh pass.
C26_OneWriteAfterFreshReads ==
    (EditRun /\ outcome = "ok") =>
        LET loop == IF helper = "u_todo" /\ rc.running_index
                    THEN SubSeq(calls, NumDbs + 1, Len(calls)) ELSE calls
        IN /\ Cardinality(Writes) = 1
           /\ \A k \in Writes : calls[k][2] = FirstHolder /\ k = Len(calls)
           /\ \A k \in 1 .. Len(loop) : loop[k][2] <= FirstHolder
           /\ (helper = "u_todo" /\ rc.running_index)
                 => SubSeq(calls, 1, NumDbs) = FreshReads
           /\ \A j \in Dbs \ {FirstHolder} : dbs[j] = pre[j]

\* C26 witness: an update with -r and -i has read the second database in its fresh
\* pass and then written the first database only.
C26_Witness ==
    /\ EditRun /\ outcome = "ok" /\ helper = "u_todo" /\ rc.running_index
    /\ FirstHolder = 1
    /\ calls[2] = <<"find_one", 2>>
    /\ calls[Len(calls)] = <<"update_one", 1>>
    /\ Cardinality(Writes) = 1
    /\ dbs[1] # pre[1]

\* ---- C27
\* C27: an update or mark-finished that ends without an exception leaves every
\* stored running_index as it was; the entry it writes, at the position the index
\* addressed in the written database, carries that index, and the index addresses
\* the same position afterwards.
C27_EditKeepsRunningIndex ==
    (EditRun /\ outcome = "ok") =>
        LET h == FirstHolder
            p == FirstMatch(pre[h].todos, rc.index)
        IN /\ h \in Written
           /\ dbs[h].todos[p] = EditedTask
           /\ dbs[h].todos[p].running_index = rc.index
           /\ FirstMatch(dbs[h].todos, rc.index) = p
           /\ \A i \in Dbs : \A q \in 1 .. Len(pre[i].todos) :
                 dbs[i].todos[q].running_index = pre[i].todos[q].running_index

\* C27 witness: a started task with index 2 has been marked finished; the written
\* entry is finished and still carries index 2.
C27_Witness ==
    /\ FinishRun
    /\ rc.index = 2
    /\ pre[1].todos[AddressedPos].status = "started"
    /\ dbs[1].todos[AddressedPos].status = "finished"
    /\ dbs[1].todos[AddressedPos].running_index = 2
    /\ 1 \in Written
====
